---- MODULE Spec2Model ----
(***************************************************************************)
(* Playback orchestration of the TuneWave client: the MusicProvider        *)
(* context (MusicContext.jsx), the YouTubeIframePlayer component and the   *)
(* VideoViewer wrapper.  One action is one browser task: an event handler  *)
(* with the closures React gave it, the batched state update, the commit   *)
(* (mount / unmount of the keyed players) and the effects whose            *)
(* dependencies changed.                                                   *)
(***************************************************************************)
EXTENDS Integers, Sequences, FiniteSets, TLC

\* ----------------------------------------------------------------- bounds
MaxQueueLen == 5
TrackLen == 1
MaxRequests == 2     \* PUT requests the server handles at the same time

\* ------------------------------------------------------------- the tracks
NoTrack == 0
Tracks == 1 .. MaxQueueLen

\* the track records of the library: what trackData.sourceType holds
TrackSourceType(t) ==
  CASE t % 4 = 1 -> "local"
    [] t % 4 = 2 -> "youtube"
    [] t % 4 = 3 -> "youtube"
    [] OTHER     -> "external_url"

\* track records the server accepts but the player cannot resolve
NoFileTrack == 9     \* sourceType 'local', no filePath
NoUrlTrack == 10     \* sourceType 'youtube', no sourceUrl
NoIdTrack == 11      \* sourceType 'youtube', a sourceUrl without a video id

UnplayableTracks == {NoFileTrack, NoUrlTrack, NoIdTrack}

\* trackUrl of loadAndPlayTrack is not null
Resolvable(t) == t \notin {NoFileTrack, NoUrlTrack}

\* getYoutubeVideoId(audioSrc) is not null
HasVideoId(t) == TrackSourceType(t) = "youtube" /\ Resolvable(t) /\ t # NoIdTrack

Library == [i \in 1 .. MaxQueueLen |-> i]
Queues == { SubSeq(Library, 1, n) : n \in 0 .. MaxQueueLen }

REPEAT_MODES == [OFF |-> "off", CONTEXT |-> "context", TRACK |-> "track"]

VARIABLES
  currentTrack, isPlaying, currentTime, duration, sourceType,
  volume, isMuted,
  playlist, currentTrackIndex, isShuffling, repeatMode,
  isVideoViewerOpen,
  audio,                    \* the <audio> element behind nativePlayerRef
  yt,                       \* the mounted YouTubeIframePlayer instance
  stale,                    \* the most recently unmounted instance
  youtubePlayerObjectRef,   \* "none", "cur" (player of yt) or "stale"
  scriptLoaded,             \* module flag of the iframe API loader
  playlistDoc,              \* the Playlist document stored by the server
  requests,                 \* the PUT /:id/tracks requests being handled
  ev                        \* the task that produced this state

vars == << currentTrack, isPlaying, currentTime, duration, sourceType,
           volume, isMuted, playlist, currentTrackIndex, isShuffling,
           repeatMode, isVideoViewerOpen, audio, yt, stale,
           youtubePlayerObjectRef, scriptLoaded, playlistDoc, requests,
           ev >>

\* ------------------------------------------------- the world as one record
World ==
  [ currentTrack |-> currentTrack, isPlaying |-> isPlaying,
    currentTime |-> currentTime, duration |-> duration,
    sourceType |-> sourceType, volume |-> volume, isMuted |-> isMuted,
    playlist |-> playlist, currentTrackIndex |-> currentTrackIndex,
    isShuffling |-> isShuffling, repeatMode |-> repeatMode,
    isVideoViewerOpen |-> isVideoViewerOpen,
    audio |-> audio, yt |-> yt, stale |-> stale,
    youtubePlayerObjectRef |-> youtubePlayerObjectRef,
    scriptLoaded |-> scriptLoaded,
    threw |-> FALSE,    \* the handler ended with an uncaught exception
    res |-> -2,         \* what getNextIndex returned to the handler
    sent |-> {},        \* the play, pause and seek calls made while handling it
    arg |-> -1,         \* the track or the time the handler was called with
    index |-> -2 ]      \* the index loadAndPlayTrack was called with

Install(w, name) ==
  /\ currentTrack' = w.currentTrack
  /\ isPlaying' = w.isPlaying
  /\ currentTime' = w.currentTime
  /\ duration' = w.duration
  /\ sourceType' = w.sourceType
  /\ volume' = w.volume
  /\ isMuted' = w.isMuted
  /\ playlist' = w.playlist
  /\ currentTrackIndex' = w.currentTrackIndex
  /\ isShuffling' = w.isShuffling
  /\ repeatMode' = w.repeatMode
  /\ isVideoViewerOpen' = w.isVideoViewerOpen
  /\ audio' = w.audio
  /\ yt' = w.yt
  /\ stale' = w.stale
  /\ youtubePlayerObjectRef' = w.youtubePlayerObjectRef
  /\ scriptLoaded' = w.scriptLoaded
  /\ UNCHANGED << playlistDoc, requests >>
  /\ ev' = [name |-> name, threw |-> w.threw, res |-> w.res,
            sent |-> w.sent, arg |-> w.arg, index |-> w.index]

\* ------------------------------------------------------ the native element
\* volumes are tenths of the element's range 0 .. 1; an element starts at
\* 1.0: the volume={volume} prop of the <audio> is not a DOM property React
\* sets, while muted={isMuted} is
ElementVolume == 10

NoAudio == [mounted |-> FALSE, src |-> NoTrack, readyState |-> 0,
            playing |-> FALSE, pos |-> 0, vol |-> ElementVolume,
            muted |-> FALSE, err |-> FALSE]

FreshAudio(t, m) == [mounted |-> TRUE, src |-> t, readyState |-> 0,
                     playing |-> FALSE, pos |-> 0, vol |-> ElementVolume,
                     muted |-> m, err |-> FALSE]

\* ------------------------------------------- YouTubeIframePlayer instances
NoClosure == [isPlaying |-> FALSE, currentTime |-> 0, sourceType |-> "null",
              playlist |-> << >>, currentTrackIndex |-> -1,
              repeatMode |-> "off", isShuffling |-> FALSE,
              hasOnEnded |-> FALSE, volume |-> 8, isMuted |-> FALSE]

\* an iframe player starts at volume 100 (percent)
PlayerVolume == 100

NoYT == [type |-> "none", key |-> NoTrack, phase |-> "none",
         video |-> NoTrack, state |-> "unstarted", interval |-> FALSE,
         pos |-> 0, cmd |-> "none", vol |-> PlayerVolume, c |-> NoClosure]


\* the closures the init effect captures at mount: the props of that render.
\* VideoViewer passes onEnded={playNextStable}, a name the context value does
\* not export (it exports playNext), so the visible instance has no onEnded.
Snapshot(n, type) ==
  IF type = "audio"
  THEN [isPlaying |-> n.isPlaying, currentTime |-> n.currentTime,
        sourceType |-> n.sourceType, playlist |-> n.playlist,
        currentTrackIndex |-> n.currentTrackIndex,
        repeatMode |-> n.repeatMode, isShuffling |-> n.isShuffling,
        hasOnEnded |-> TRUE, volume |-> n.volume, isMuted |-> n.isMuted]
  ELSE [NoClosure EXCEPT !.isPlaying = n.isPlaying,
                         !.currentTime = n.currentTime,
                         !.sourceType = n.sourceType,
                         !.volume = n.volume,
                         !.isMuted = n.isMuted]

\* ---------------------------------------------- the iframe player's methods
PlayVideo(p) == [p EXCEPT !.cmd = "play"]

PauseVideo(p) == [p EXCEPT !.cmd = "pause"]

StopVideo(p) == [p EXCEPT !.cmd = "stop"]

\* a position past the end of the medium is the end
ClampPos(t) == IF t > TrackLen THEN TrackLen ELSE IF t < 0 THEN 0 ELSE t

\* seekTo resumes playback unless the player is (being) paused
SeekTo(p, t) ==
  [p EXCEPT !.pos = ClampPos(t),
            !.cmd = IF p.cmd = "pause" THEN "pause" ELSE "play"]

\* player.setVolume(isMuted ? 0 : Math.round(volume * 100)) of the props cl
SetVolume(p, cl) ==
  [p EXCEPT !.vol = IF cl.isMuted THEN 0 ELSE cl.volume * 10]

LoadVideoById(p, v) ==
  [p EXCEPT !.video = v, !.pos = 0, !.cmd = "play",
            !.state = IF @ = "error" THEN "unstarted" ELSE @]

\* getDuration is 0 until the video has started loading its data
GetDuration(p) == IF p.state \in {"unstarted", "error"} THEN 0 ELSE TrackLen

\* the state reports the platform may deliver next
NextStates(p) ==
  IF p.phase \notin {"built", "ready"} \/ p.video = NoTrack
     \/ p.state = "error" THEN {}
  ELSE IF p.cmd = "play"
       THEN CASE p.state = "playing"   -> {"ended"}
              [] p.state = "buffering" -> {"playing"}
              [] OTHER                 -> {"buffering", "playing"}
  ELSE IF p.cmd = "pause" /\ p.state # "paused" THEN {"paused"}
  ELSE {}

\* ----------------------------------------------- the <audio> element's API
Play(a) == [a EXCEPT !.playing = TRUE,
                     !.pos = IF a.pos = TrackLen THEN 0 ELSE a.pos]

Pause(a) == [a EXCEPT !.playing = FALSE]

IsNative(st) == st \in {"local", "external_url"}

\* ------------------------------------------------- MusicProvider callbacks
\* cl is the render whose closure the callback is; w is the state the batched
\* updates and the imperative calls are applied to.

\* getNextIndex with the shuffle test moved before the repeat-track test
GetNextIndex_ShuffleFirst(cl) ==
  IF Len(cl.playlist) = 0 THEN {-1}
  ELSE IF cl.isShuffling
       THEN { i \in 0 .. (Len(cl.playlist) - 1) :
                ~(i = cl.currentTrackIndex /\ Len(cl.playlist) > 1) }
  ELSE IF cl.repeatMode = REPEAT_MODES.TRACK THEN {cl.currentTrackIndex}
  ELSE IF cl.currentTrackIndex + 1 >= Len(cl.playlist)
       THEN {IF cl.repeatMode = REPEAT_MODES.CONTEXT THEN 0 ELSE -1}
  ELSE {cl.currentTrackIndex + 1}

\* getNextIndex with a single Math.random draw instead of the do-while
GetNextIndex_NoReroll(cl) ==
  IF Len(cl.playlist) = 0 THEN {-1}
  ELSE IF cl.repeatMode = REPEAT_MODES.TRACK THEN {cl.currentTrackIndex}
  ELSE IF cl.isShuffling THEN 0 .. (Len(cl.playlist) - 1)
  ELSE IF cl.currentTrackIndex + 1 >= Len(cl.playlist)
       THEN {IF cl.repeatMode = REPEAT_MODES.CONTEXT THEN 0 ELSE -1}
  ELSE {cl.currentTrackIndex + 1}

GetNextIndex(cl) ==
  IF Len(cl.playlist) = 0 THEN {-1}
  ELSE IF cl.repeatMode = REPEAT_MODES.TRACK THEN {cl.currentTrackIndex}
  ELSE IF cl.isShuffling
       THEN { i \in 0 .. (Len(cl.playlist) - 1) :
                ~(i = cl.currentTrackIndex /\ Len(cl.playlist) > 1) }
  ELSE IF cl.currentTrackIndex + 1 >= Len(cl.playlist)
       THEN {IF cl.repeatMode = REPEAT_MODES.CONTEXT THEN 0 ELSE -1}
  ELSE {cl.currentTrackIndex + 1}

SetYoutubeCurrentTime(cl, w, t) ==
  IF cl.sourceType = "youtube" THEN [w EXCEPT !.currentTime = t] ELSE w

SetYoutubeDuration(cl, w, d) ==
  IF cl.sourceType = "youtube" THEN [w EXCEPT !.duration = d] ELSE w

HandleSeek(cl, w, time) ==
  IF cl.sourceType = "youtube"
  THEN IF w.youtubePlayerObjectRef = "none" THEN w
       ELSE LET w1 == IF w.youtubePlayerObjectRef = "cur"
                      THEN [w EXCEPT !.yt = SeekTo(w.yt, time)]
                      ELSE [w EXCEPT !.stale = SeekTo(w.stale, time)]
            IN [w1 EXCEPT !.currentTime = time,
                          !.isPlaying = IF cl.isPlaying THEN @ ELSE TRUE,
                          !.sent = @ \cup {"seek"}]
  ELSE IF ~w.audio.mounted THEN w
       ELSE [w EXCEPT !.audio = [w.audio EXCEPT !.pos = ClampPos(time)],
                      !.currentTime = time,
                      !.isPlaying = IF cl.isPlaying THEN @ ELSE TRUE,
                      !.sent = @ \cup {"seek"}]

\* loadAndPlayTrack without the reset of the position and the length
LoadAndPlayTrack_NoReset(w, t, index) ==
  IF t = NoTrack THEN w
  ELSE IF ~Resolvable(t)
       THEN [w EXCEPT !.currentTrack = NoTrack, !.isPlaying = FALSE,
                      !.index = index]
  ELSE [w EXCEPT !.currentTrack = t,
                 !.sourceType = TrackSourceType(t),
                 !.isVideoViewerOpen = (TrackSourceType(t) = "youtube"),
                 !.currentTrackIndex = IF index # -1 THEN index ELSE @,
                 !.isPlaying = TRUE,
                 !.index = index]

LoadAndPlayTrack(w, t, index) ==
  IF t = NoTrack THEN w
  ELSE IF ~Resolvable(t)
       THEN [w EXCEPT !.currentTrack = NoTrack, !.isPlaying = FALSE,
                      !.index = index]
  ELSE [w EXCEPT !.currentTrack = t,
                 !.sourceType = TrackSourceType(t),
                 !.isVideoViewerOpen = (TrackSourceType(t) = "youtube"),
                 !.currentTime = 0,
                 !.duration = 0,
                 !.currentTrackIndex = IF index # -1 THEN index ELSE @,
                 !.isPlaying = TRUE,
                 !.index = index]

FindIndex(q, t) ==
  IF \E i \in 1 .. Len(q) : q[i] = t
  THEN (CHOOSE i \in 1 .. Len(q) :
          q[i] = t /\ \A j \in 1 .. (i - 1) : q[j] # t) - 1
  ELSE -1

PlayTrack(w, t) == LoadAndPlayTrack(w, t, FindIndex(w.playlist, t))

\* playlist[i] of the closure, NoTrack for undefined
At(q, i) == IF i >= 0 /\ i < Len(q) THEN q[i + 1] ELSE NoTrack

PlayNextStable(cl, w, nextIndex) ==
  IF nextIndex # -1 /\ nextIndex # cl.currentTrackIndex
  THEN IF At(cl.playlist, nextIndex) # NoTrack
       THEN PlayTrack(w, At(cl.playlist, nextIndex))
       ELSE w
  ELSE IF nextIndex = cl.currentTrackIndex
          /\ cl.repeatMode = REPEAT_MODES.TRACK
  THEN HandleSeek(cl, w, 0)
  ELSE IF nextIndex = -1 /\ cl.repeatMode = REPEAT_MODES.OFF
  THEN [w EXCEPT !.isPlaying = FALSE, !.currentTrackIndex = -1,
                 !.currentTime = 0]
  ELSE w

HandleAudioEnded(cl, w, nextIndex) ==
  PlayNextStable(cl, [w EXCEPT !.isPlaying = FALSE, !.currentTime = 0],
                 nextIndex)

\* prevIndex of playPreviousStable
PrevIndex(cl) ==
  IF cl.currentTrackIndex - 1 < 0
  THEN IF cl.repeatMode # REPEAT_MODES.OFF THEN Len(cl.playlist) - 1 ELSE 0
  ELSE cl.currentTrackIndex - 1

PlayPreviousStable(cl, w) ==
  IF Len(cl.playlist) = 0 \/ cl.currentTrackIndex = -1 THEN w
  ELSE IF PrevIndex(cl) = cl.currentTrackIndex THEN w
  ELSE IF At(cl.playlist, PrevIndex(cl)) = NoTrack
       THEN [w EXCEPT !.threw = TRUE]  \* playTrack(undefined): TypeError
  ELSE PlayTrack(w, At(cl.playlist, PrevIndex(cl)))


\* -------------------------------------------------- render, commit, effects
\* memoizedVideoId of the YouTubeIframePlayer rendered from state n
VideoOf(n) ==
  IF n.sourceType = "youtube" /\ n.currentTrack # NoTrack
     /\ HasVideoId(n.currentTrack)
  THEN n.currentTrack ELSE NoTrack

\* which YouTubeIframePlayer the render of state n contains
WantType(n) ==
  IF n.isVideoViewerOpen THEN "video"
  ELSE IF VideoOf(n) # NoTrack THEN "audio"
  ELSE "none"

\* the init effect: loadYouTubeScript().then(new YT.Player(...)); once the
\* script is loaded the promise is already resolved
MountYT(n, type) ==
  [type |-> type,
   key |-> IF type = "audio" THEN n.currentTrack ELSE NoTrack,
   phase |-> IF n.scriptLoaded THEN "built" ELSE "script",
   video |-> VideoOf(n), state |-> "unstarted", interval |-> FALSE,
   pos |-> 0, cmd |-> "none", vol |-> PlayerVolume,
   c |-> Snapshot(n, type)]

\* effect 2 of YouTubeIframePlayer (video change), on a ready player
VideoChangeEffect(n, y) ==
  IF VideoOf(n) # NoTrack
  THEN IF y.video = VideoOf(n)
       THEN IF GetDuration(y) > 0
            THEN [w |-> SetYoutubeDuration(n, n, GetDuration(y)), y |-> y]
            ELSE [w |-> n, y |-> y]
       ELSE [w |-> SetYoutubeCurrentTime(n, SetYoutubeDuration(n, n, 0), 0),
             y |-> LoadVideoById(y, VideoOf(n))]
  ELSE [w |-> SetYoutubeCurrentTime(n, SetYoutubeDuration(n, n, 0), 0),
        y |-> StopVideo(y)]

\* effect 3 of YouTubeIframePlayer (control sync), on a ready player; the
\* decision reads getPlayerState(), the last state the iframe reported
ControlSyncCmd(n, y) ==
  IF n.isPlaying /\ y.state \notin {"playing", "buffering"} THEN "play"
  ELSE IF ~n.isPlaying /\ y.state \notin {"paused", "ended"} THEN "pause"
  ELSE "none"

ControlSyncEffect(n, y) ==
  SetVolume(CASE ControlSyncCmd(n, y) = "play"  -> PlayVideo(y)
              [] ControlSyncCmd(n, y) = "pause" -> PauseVideo(y)
              [] OTHER                          -> y,
            n)

\* the effect that controls the native <audio> element
NativeControlCmd(n, a) ==
  IF a.mounted /\ IsNative(n.sourceType)
  THEN IF n.isPlaying
       THEN IF a.readyState >= 3 \/ a.pos > 0 THEN "play" ELSE "none"
       ELSE "pause"
  ELSE "none"

\* the native control effect without the volume and muted assignments
NativeControlEffect_NoVolume(n, a) ==
  IF a.mounted /\ IsNative(n.sourceType)
  THEN CASE NativeControlCmd(n, a) = "play"  -> Play(a)
         [] NativeControlCmd(n, a) = "pause" -> Pause(a)
         [] OTHER                            -> a
  ELSE a

NativeControlEffect(n, a) ==
  IF a.mounted /\ IsNative(n.sourceType)
  THEN LET a1 == [a EXCEPT !.vol = n.volume, !.muted = n.isMuted]
       IN CASE NativeControlCmd(n, a) = "play"  -> Play(a1)
            [] NativeControlCmd(n, a) = "pause" -> Pause(a1)
            [] OTHER                            -> a1
  ELSE a

\* o: the state of the previous render, n: the state after the handler
Commit(o, n) ==
  LET wantAudio == IsNative(n.sourceType) /\ n.currentTrack # NoTrack
      keepAudio == wantAudio /\ n.audio.mounted
                   /\ n.audio.src = n.currentTrack
      a1 == IF keepAudio THEN [n.audio EXCEPT !.muted = n.isMuted]
            ELSE IF wantAudio THEN FreshAudio(n.currentTrack, n.isMuted)
            ELSE NoAudio
      keepYT == n.yt.type # "none" /\ n.yt.type = WantType(n)
                /\ (n.yt.type = "video" \/ n.yt.key = n.currentTrack)
      unmount == n.yt.type # "none" /\ ~keepYT
      \* cleanup of the init effect
      st1 == IF unmount /\ n.yt.phase \notin {"script", "failed"}
             THEN [n.yt EXCEPT !.interval = FALSE]
             ELSE n.stale
      r1 == IF unmount THEN "none" ELSE n.youtubePlayerObjectRef
      y1 == IF keepYT THEN n.yt
            ELSE IF WantType(n) # "none" THEN MountYT(n, WantType(n))
            ELSE NoYT
      readyChanged == (o.yt.phase = "ready") # (n.yt.phase = "ready")
      run2 == keepYT /\ y1.phase = "ready"
              /\ (VideoOf(o) # VideoOf(n) \/ readyChanged
                  \/ o.sourceType # n.sourceType)
      e2 == IF run2 THEN VideoChangeEffect(n, y1) ELSE [w |-> n, y |-> y1]
      run3 == keepYT /\ y1.phase = "ready"
              /\ (o.isPlaying # n.isPlaying \/ o.volume # n.volume
                  \/ o.isMuted # n.isMuted \/ readyChanged)
      y3 == IF run3 THEN ControlSyncEffect(n, e2.y) ELSE e2.y
      runN == o.isPlaying # n.isPlaying \/ o.volume # n.volume
              \/ o.isMuted # n.isMuted \/ o.sourceType # n.sourceType
      a2 == IF runN THEN NativeControlEffect(n, a1) ELSE a1
      s3 == IF run3 THEN {ControlSyncCmd(n, e2.y)} ELSE {}
      sN == IF runN THEN {NativeControlCmd(n, a1)} ELSE {}
  IN [e2.w EXCEPT !.audio = a2, !.yt = y3, !.stale = st1,
                  !.youtubePlayerObjectRef = r1,
                  !.sent = (n.sent \cup s3 \cup sN) \ {"none"}]

\* ------------------------------------------ the server's playlists route
Requests == 1 .. MaxRequests

OWNER == "owner"
Users == {OWNER, "guest"}
ServerTracks == {1, 2}     \* ids of the stored Track documents
MissingTrack == 7          \* a valid ObjectId without a Track document
InvalidId == 0             \* not an ObjectId
PlaylistIds == {"stored", "unknown"}

\* POST / creates the playlist with tracks: []; lastTrack and lastBefore
\* remember the track of the last save and the list before it
NewPlaylist == [tracks |-> << >>, lastTrack |-> 0, lastBefore |-> << >>]

NoRequest == [pc |-> "idle", trackId |-> 0, tracks |-> << >>,
              conflict |-> FALSE, status |-> 0, isAdded |-> FALSE]

\* ------------------------------------------------------------------ Init
Init ==
  /\ currentTrack = NoTrack
  /\ isPlaying = FALSE
  /\ currentTime = 0
  /\ duration = 0
  /\ sourceType = "null"
  /\ volume = 8
  /\ isMuted = FALSE
  /\ playlist = << >>
  /\ currentTrackIndex = -1
  /\ isShuffling = FALSE
  /\ repeatMode = REPEAT_MODES.OFF
  /\ isVideoViewerOpen = FALSE
  /\ audio = NoAudio
  /\ yt = NoYT
  /\ stale = NoYT
  /\ youtubePlayerObjectRef = "none"
  /\ scriptLoaded = FALSE
  /\ playlistDoc = NewPlaylist
  /\ requests = [r \in Requests |-> NoRequest]
  /\ ev = [name |-> "init", threw |-> FALSE, res |-> -2, sent |-> {},
           arg |-> -1, index |-> -2]

\* ----------------------------------------------------------- user intents
\* Home: fetchTracks / handleUploadSuccess / handleDeleteTrack
SetPlaylist ==
  \E q \in Queues :
    /\ q # playlist
    /\ Install(Commit(World, [World EXCEPT !.playlist = q]), "setPlaylist")

\* TrackCard / Search: playTrack(fullTrackData)
PlayTrackAct ==
  \E t \in Tracks :
    Install(Commit(World, PlayTrack([World EXCEPT !.arg = t], t)),
            "playTrack")

\* playTrack of a track whose source does not resolve
PlayUnresolvable ==
  \E t \in UnplayableTracks :
    Install(Commit(World, PlayTrack([World EXCEPT !.arg = t], t)),
            "playUnresolvable")

\* Playlist page: playNewQueue(playlist.tracks, index)
PlayNewQueue ==
  \E q \in Queues \ {<< >>} : \E i \in 0 .. (Len(q) - 1) :
    Install(Commit(World,
              LoadAndPlayTrack([World EXCEPT !.playlist = q,
                                             !.arg = At(q, i)], At(q, i), i)),
            "playNewQueue")

\* the MusicPlayer bar renders its controls only with a current track
PlayNext ==
  /\ currentTrack # NoTrack
  /\ \E ni \in GetNextIndex(World) :
       Install(Commit(World,
                 [PlayNextStable(World, World, ni) EXCEPT !.res = ni]),
               "playNext")

PlayPrevious ==
  /\ currentTrack # NoTrack
  /\ Install(Commit(World, PlayPreviousStable(World, World)), "playPrevious")

ToggleShuffle ==
  /\ currentTrack # NoTrack
  /\ Install(Commit(World, [World EXCEPT !.isShuffling = ~isShuffling]),
             "toggleShuffle")

ToggleRepeat ==
  /\ currentTrack # NoTrack
  /\ Install(Commit(World,
       [World EXCEPT !.repeatMode =
          IF repeatMode = REPEAT_MODES.OFF THEN REPEAT_MODES.CONTEXT
          ELSE IF repeatMode = REPEAT_MODES.CONTEXT THEN REPEAT_MODES.TRACK
          ELSE REPEAT_MODES.OFF]), "toggleRepeat")

TogglePlayPause ==
  Install(Commit(World,
            IF currentTrack # NoTrack
            THEN [World EXCEPT !.isPlaying = ~isPlaying] ELSE World),
          "togglePlayPause")

\* the values the volume slider of the MusicPlayer bar is moved to (tenths)
Volumes == {5, 8}

\* setVolume of the context value
SetAudioVolume ==
  /\ currentTrack # NoTrack
  /\ \E v \in Volumes \ {volume} :
       Install(Commit(World,
                 [World EXCEPT !.volume = v,
                               !.isMuted = IF v > 0 THEN FALSE ELSE @]),
               "setVolume")

ToggleMute ==
  /\ currentTrack # NoTrack
  /\ Install(Commit(World, [World EXCEPT !.isMuted = ~isMuted]),
             "toggleMute")

\* the times handleSeek is called with
SeekTimes == 0 .. (TrackLen + 1)

Seek ==
  \E t \in SeekTimes :
    Install(Commit(World, HandleSeek(World, [World EXCEPT !.arg = t], t)),
            "handleSeek")

\* MusicPlayer: handleTrackInfoClick (YouTube tracks only); VideoViewer: X
ToggleVideoViewerOp(w) ==
  LET w1 == IF w.isVideoViewerOpen /\ w.youtubePlayerObjectRef # "none"
            THEN IF w.youtubePlayerObjectRef = "cur"
                 THEN [w EXCEPT !.yt = SeekTo(w.yt, w.currentTime)]
                 ELSE [w EXCEPT !.stale = SeekTo(w.stale, w.currentTime)]
            ELSE w
  IN [w1 EXCEPT !.isVideoViewerOpen = ~w.isVideoViewerOpen,
                !.sent = IF w.isVideoViewerOpen
                            /\ w.youtubePlayerObjectRef # "none"
                         THEN @ \cup {"seek"} ELSE @]

ToggleVideoViewer ==
  /\ (currentTrack # NoTrack /\ sourceType = "youtube") \/ isVideoViewerOpen
  /\ Install(Commit(World, ToggleVideoViewerOp(World)), "toggleVideoViewer")


\* --------------------------------------------- events of the iframe player
\* role "cur": the mounted instance; role "stale": the unmounted instance
\* whose callbacks still hold the closures of the render that mounted it
Inst(w, role) == IF role = "cur" THEN w.yt ELSE w.stale

PutInst(w, role, p) ==
  IF role = "cur" THEN [w EXCEPT !.yt = p] ELSE [w EXCEPT !.stale = p]

OnPlayerReady(w, role) ==
  LET p == Inst(w, role)
      p1 == [p EXCEPT !.phase = "ready"]
      w1 == IF GetDuration(p) > 0
            THEN SetYoutubeDuration(p.c, w, GetDuration(p)) ELSE w
      p2 == SetVolume(IF p.c.currentTime > 0
                      THEN SeekTo(p1, p.c.currentTime) ELSE p1, p.c)
      p3 == IF p.c.isPlaying THEN PlayVideo(p2) ELSE p2
  IN [PutInst(w1, role, p3) EXCEPT
        !.youtubePlayerObjectRef = role,
        !.sent = @ \cup (IF p.c.currentTime > 0 THEN {"seek"} ELSE {})
                   \cup (IF p.c.isPlaying THEN {"play"} ELSE {})]

OnPlayerStateChange(w, role, s, nextIndex) ==
  LET p == Inst(w, role)
      p1 == [p EXCEPT !.state = s,
                      !.interval = (s = "playing"),
                      !.cmd = IF s = "ended" THEN "none" ELSE @,
                      !.pos = IF s = "ended" THEN TrackLen ELSE @]
      w1 == IF s \in {"playing", "buffering"}
            THEN SetYoutubeDuration(p.c, w, GetDuration(p1)) ELSE w
      w2 == PutInst(w1, role, p1)
  IN IF s # "ended" THEN w2
     ELSE LET w3 == SetYoutubeCurrentTime(p.c, w2, GetDuration(p1))
          IN IF p.c.hasOnEnded THEN PlayNextStable(p.c, w3, nextIndex)
             ELSE [w3 EXCEPT !.threw = TRUE]  \* onEnded is not a function

IntervalTick(w, role) ==
  LET p == Inst(w, role)
      p1 == [p EXCEPT !.pos = IF p.phase # "destroyed" /\ p.pos < TrackLen
                              THEN p.pos + 1 ELSE p.pos]
  IN SetYoutubeCurrentTime(p.c, PutInst(w, role, p1), p1.pos)

ScriptLoaded ==
  /\ ~scriptLoaded
  /\ yt.phase = "script"
  /\ Install(Commit(World, [World EXCEPT !.scriptLoaded = TRUE,
                                          !.yt = [yt EXCEPT !.phase = "built"]]),
             "scriptLoaded")

YTReady ==
  /\ yt.phase = "built"
  /\ Install(Commit(World, OnPlayerReady(World, "cur")), "ytReady")

YTStateChange ==
  \E s \in NextStates(yt) : \E ni \in GetNextIndex(yt.c) :
    Install(Commit(World,
              [OnPlayerStateChange(World, "cur", s, ni) EXCEPT
                 !.res = IF s = "ended" /\ yt.c.hasOnEnded THEN ni ELSE @]),
            IF s = "ended" THEN "ytEnded" ELSE "ytStateChange")

YTTick ==
  /\ yt.interval
  /\ Install(Commit(World, IntervalTick(World, "cur")), "ytTick")

StaleReady ==
  /\ stale.phase = "built"
  /\ Install(Commit(World, OnPlayerReady(World, "stale")), "staleReady")

StaleStateChange ==
  \E s \in NextStates(stale) : \E ni \in GetNextIndex(stale.c) :
    Install(Commit(World, OnPlayerStateChange(World, "stale", s, ni)),
            IF s = "ended" THEN "staleEnded" ELSE "staleStateChange")

StaleTick ==
  /\ stale.interval
  /\ Install(Commit(World, IntervalTick(World, "stale")), "staleTick")

\* the setTimeout(..., 100) of the init effect's cleanup
StaleDestroy ==
  /\ stale.phase \in {"built", "ready"}
  /\ Install(Commit(World,
       [World EXCEPT !.stale =
          IF stale.interval \/ youtubePlayerObjectRef = "stale"
          THEN [stale EXCEPT !.phase = "destroyed", !.cmd = "stop"]
          ELSE NoYT]), "staleDestroy")

\* --------------------------------------------- events of the <audio> element
HandleNativeReady(cl, w) ==
  IF ~w.audio.mounted THEN w
  ELSE [w EXCEPT !.duration = TrackLen,
                 !.audio = IF cl.isPlaying THEN Play(w.audio) ELSE w.audio,
                 !.sent = IF cl.isPlaying THEN @ \cup {"play"} ELSE @]

HandleNativeProgress(cl, w) ==
  IF cl.isPlaying /\ IsNative(cl.sourceType) /\ w.audio.mounted
  THEN [w EXCEPT !.currentTime = w.audio.pos] ELSE w

NativeLoadedMetadata ==
  /\ audio.mounted /\ audio.readyState = 0 /\ ~audio.err
  /\ Install(Commit(World,
       HandleNativeReady(World,
         [World EXCEPT !.audio = [audio EXCEPT !.readyState = 1]])),
       "nativeLoadedMetadata")

NativeCanPlay ==
  /\ audio.mounted /\ audio.readyState = 1
  /\ Install(Commit(World,
       [World EXCEPT !.audio = [audio EXCEPT !.readyState = 3]]),
       "nativeCanPlay")

NativeTimeUpdate ==
  /\ audio.mounted /\ audio.playing /\ audio.readyState = 3
  /\ audio.pos < TrackLen
  /\ Install(Commit(World,
       HandleNativeProgress(World,
         [World EXCEPT !.audio = [audio EXCEPT !.pos = audio.pos + 1]])),
       "nativeTimeUpdate")

NativeEnded ==
  /\ audio.mounted /\ audio.playing /\ audio.pos = TrackLen
  /\ \E ni \in GetNextIndex(World) :
       Install(Commit(World,
         HandleAudioEnded(World,
           [World EXCEPT !.audio = Pause(audio), !.res = ni], ni)),
         "nativeEnded")

\* ------------------------------------------------------------- failures
\* the promise of play() rejects (autoplay policy): .catch(console.warn)
NativePlayRejected ==
  /\ audio.mounted /\ audio.playing /\ audio.pos = 0
  /\ Install(Commit(World, [World EXCEPT !.audio = Pause(audio)]),
             "nativePlayRejected")

\* onError of the <audio> element
NativeError ==
  /\ audio.mounted /\ audio.readyState = 0 /\ ~audio.err
  /\ Install(Commit(World,
       [World EXCEPT !.audio = [Pause(audio) EXCEPT !.err = TRUE],
                     !.isPlaying = FALSE, !.duration = 0]),
       "nativeError")

\* the script tag of loadYouTubeScript fails to load: the promise stays
\* pending, no handler runs
ScriptFailed ==
  /\ ~scriptLoaded
  /\ yt.phase = "script"
  /\ Install(Commit(World, [World EXCEPT !.yt = [yt EXCEPT !.phase = "failed"]]),
             "scriptFailed")

\* new YT.Player throws inside .then: .catch(console.error)
YTConstructFailed ==
  /\ ~scriptLoaded
  /\ yt.phase = "script"
  /\ Install(Commit(World, [World EXCEPT !.scriptLoaded = TRUE,
                                          !.yt = [yt EXCEPT !.phase = "failed"]]),
             "ytConstructFailed")

\* the embed reports a playback error: no onError is registered
YTError ==
  /\ yt.phase \in {"built", "ready"} /\ yt.video # NoTrack
  /\ yt.state = "unstarted"
  /\ Install(Commit(World,
       [World EXCEPT !.yt = [yt EXCEPT !.state = "error", !.cmd = "none"]]),
       "ytError")

\* --------------------------------------------- PUT /api/playlists/:id/tracks
\* Array.prototype.findIndex: the first position (from 0) or -1
TrackIndex(tracks, trackId) ==
  IF \E i \in DOMAIN tracks : tracks[i] = trackId
  THEN (CHOOSE i \in DOMAIN tracks :
          /\ tracks[i] = trackId
          /\ \A j \in DOMAIN tracks : tracks[j] = trackId => i <= j) - 1
  ELSE -1

\* tracks.splice(i, 1)
Splice(tracks, i) ==
  SubSeq(tracks, 1, i) \o SubSeq(tracks, i + 2, Len(tracks))

Respond(r, status, isAdded) ==
  [requests EXCEPT ![r] = [NoRequest EXCEPT !.status = status,
                                            !.isAdded = isAdded]]

\* every other request that holds a loaded copy now holds an old version
Outdate(rs, r) ==
  [q \in Requests |->
     IF q # r /\ rs[q].pc = "found" THEN [rs[q] EXCEPT !.conflict = TRUE]
     ELSE rs[q]]

ServerStep(name) ==
  /\ UNCHANGED << currentTrack, isPlaying, currentTime, duration, sourceType,
                  volume, isMuted, playlist, currentTrackIndex, isShuffling,
                  repeatMode, isVideoViewerOpen, audio, yt, stale,
                  youtubePlayerObjectRef, scriptLoaded >>
  /\ ev' = [name |-> name, threw |-> FALSE, res |-> -2, sent |-> {},
            arg |-> -1, index |-> -2]

\* the route up to the documents it has read: the checks of the track id,
\* the playlist, its owner and the track
PutTracksFind ==
  \E r \in Requests, trackId \in ServerTracks \cup {MissingTrack, InvalidId},
     user \in Users, id \in PlaylistIds :
    /\ requests[r].pc = "idle"
    /\ requests' =
         IF trackId = InvalidId THEN Respond(r, 400, FALSE)
         ELSE IF id # "stored" THEN Respond(r, 404, FALSE)
         ELSE IF user # OWNER THEN Respond(r, 401, FALSE)
         ELSE IF trackId \notin ServerTracks THEN Respond(r, 404, FALSE)
         ELSE [requests EXCEPT ![r] =
                 [NoRequest EXCEPT !.pc = "found", !.trackId = trackId,
                                   !.tracks = playlistDoc.tracks]]
    /\ UNCHANGED playlistDoc
    /\ ServerStep("putTracksFind")

\* the rest of the route: findIndex, splice or push, save and the response.
\* save() sends a push as $push, which the stored array takes whatever its
\* version, and a splice as the whole array, which is refused (500) when
\* the stored version is no longer the one that was read
PutTracksSave ==
  \E r \in Requests :
    LET req == requests[r]
        trackIndex == TrackIndex(req.tracks, req.trackId)
        saved(tracks) == [tracks |-> tracks, lastTrack |-> req.trackId,
                          lastBefore |-> playlistDoc.tracks]
    IN
    /\ req.pc = "found"
    /\ IF trackIndex > -1
       THEN IF req.conflict
            THEN /\ requests' = Respond(r, 500, FALSE)
                 /\ UNCHANGED playlistDoc
            ELSE /\ playlistDoc' = saved(Splice(req.tracks, trackIndex))
                 /\ requests' = Outdate(Respond(r, 200, FALSE), r)
       ELSE /\ playlistDoc' = saved(Append(playlistDoc.tracks, req.trackId))
            /\ requests' = Outdate(Respond(r, 200, TRUE), r)
    /\ ServerStep("putTracksSave")

Next ==
  \/ SetPlaylist
  \/ PlayTrackAct
  \/ PlayUnresolvable
  \/ PlayNewQueue
  \/ PlayNext
  \/ PlayPrevious
  \/ ToggleShuffle
  \/ ToggleRepeat
  \/ TogglePlayPause
  \/ SetAudioVolume
  \/ ToggleMute
  \/ Seek
  \/ ToggleVideoViewer
  \/ ScriptLoaded
  \/ YTReady
  \/ YTStateChange
  \/ YTTick
  \/ StaleReady
  \/ StaleStateChange
  \/ StaleTick
  \/ StaleDestroy
  \/ NativeLoadedMetadata
  \/ NativeCanPlay
  \/ NativeTimeUpdate
  \/ NativeEnded
  \/ NativePlayRejected
  \/ NativeError
  \/ ScriptFailed
  \/ YTConstructFailed
  \/ YTError
  \/ PutTracksFind
  \/ PutTracksSave

Spec == Init /\ [][Next]_vars


\* the end of a track: the players' events and the queue set-up before them
NextEnded ==
  \/ PlayNewQueue
  \/ ToggleRepeat
  \/ ScriptLoaded
  \/ YTReady
  \/ YTStateChange
  \/ YTTick
  \/ StaleDestroy
  \/ NativeLoadedMetadata
  \/ NativeCanPlay
  \/ NativeTimeUpdate
  \/ NativeEnded

SpecEnded == Init /\ [][NextEnded]_vars

\* the end of a YouTube track in the hidden player, whose handlers are those
\* of the render that mounted it
NextHidden ==
  \/ PlayNewQueue
  \/ ToggleRepeat
  \/ ToggleVideoViewer
  \/ ScriptLoaded
  \/ YTReady
  \/ YTStateChange
  \/ StaleDestroy

SpecHidden == Init /\ [][NextHidden]_vars

\* a superseded player: late callbacks of the unmounted instance
NextStale ==
  \/ PlayTrackAct
  \/ ToggleVideoViewer
  \/ ScriptLoaded
  \/ YTReady
  \/ YTStateChange
  \/ YTTick
  \/ StaleReady
  \/ StaleStateChange
  \/ StaleTick
  \/ StaleDestroy
  \/ NativeLoadedMetadata
  \/ NativeCanPlay
  \/ NativeTimeUpdate
  \/ NativeEnded

SpecStale == Init /\ [][NextStale]_vars

\* the navigation policy on every queue, cursor, shuffle flag and repeat mode
NextPolicy ==
  \/ SetPlaylist
  \/ PlayTrackAct
  \/ PlayNewQueue
  \/ PlayNext
  \/ PlayPrevious
  \/ ToggleShuffle
  \/ ToggleRepeat

SpecPolicy == Init /\ [][NextPolicy]_vars


\* play / pause and seek on a track while its player loads and plays
NextToggle ==
  \/ PlayNewQueue
  \/ TogglePlayPause
  \/ Seek
  \/ ScriptLoaded
  \/ YTReady
  \/ YTStateChange
  \/ YTTick
  \/ StaleDestroy
  \/ NativeLoadedMetadata
  \/ NativeCanPlay
  \/ NativeTimeUpdate
  \/ NativeEnded

SpecToggle == Init /\ [][NextToggle]_vars

\* volume and mute across changes of the player kind
NextVolume ==
  \/ PlayTrackAct
  \/ SetAudioVolume
  \/ ToggleMute
  \/ ScriptLoaded
  \/ YTReady
  \/ YTStateChange
  \/ StaleDestroy
  \/ NativeLoadedMetadata
  \/ NativeCanPlay

SpecVolume == Init /\ [][NextVolume]_vars


\* loads that fail: unresolvable sources, rejected play(), player errors
NextFailure ==
  \/ PlayTrackAct
  \/ PlayUnresolvable
  \/ ScriptLoaded
  \/ YTReady
  \/ YTStateChange
  \/ StaleDestroy
  \/ NativeLoadedMetadata
  \/ NativeCanPlay
  \/ NativeTimeUpdate
  \/ NativePlayRejected
  \/ NativeError
  \/ ScriptFailed
  \/ YTConstructFailed
  \/ YTError

SpecFailure == Init /\ [][NextFailure]_vars

\* the same steps with the program's own timer: the player events are the
\* platform's and may never come, the setTimeout of the cleanup always fires
SpecFailureFair == SpecFailure /\ WF_vars(StaleDestroy)


\* the player-bar calls with and without a current track
NextIdle ==
  \/ PlayTrackAct
  \/ PlayUnresolvable
  \/ TogglePlayPause
  \/ Seek
  \/ ScriptLoaded
  \/ YTReady
  \/ YTStateChange
  \/ StaleDestroy
  \/ NativeLoadedMetadata
  \/ NativeCanPlay

SpecIdle == Init /\ [][NextIdle]_vars

\* the owner's and other users' requests to the playlists route
NextServer ==
  \/ PutTracksFind
  \/ PutTracksSave

SpecServer == Init /\ [][NextServer]_vars

\* loading a track over a track that has a position and a length
NextLoad ==
  \/ SetPlaylist
  \/ PlayTrackAct
  \/ PlayNewQueue
  \/ ScriptLoaded
  \/ YTReady
  \/ YTStateChange
  \/ YTTick
  \/ StaleDestroy
  \/ NativeLoadedMetadata

SpecLoad == Init /\ [][NextLoad]_vars


\* -------------------------------------------------------------- properties
StaleEvents == {"staleReady", "staleStateChange", "staleEnded", "staleTick"}

\* the unmounted instance was loading or playing T1 and another track is
\* the current one
Superseded == stale.type # "none" /\ currentTrack # NoTrack
              /\ stale.video # currentTrack

\* C1: once a load of T2 has superseded the load of T1, no ready, duration,
\* progress or ended callback of T1's player instance changes currentTrack,
\* currentTime, duration, isPlaying or currentTrackIndex.
C1_StaleEventImmunity ==
  [][(Superseded /\ ev'.name \in StaleEvents)
       => UNCHANGED << currentTrack, currentTime, duration, isPlaying,
                       currentTrackIndex >>]_vars

\* C2: when T2 is loaded before T1's player has reported ready, T1's pending
\* initialisation never starts playback and never registers T1's player as
\* the active player object.
C2_LatestLoadWins ==
  [][(Superseded /\ ev'.name = "staleReady")
       => (youtubePlayerObjectRef' # "stale" /\ stale'.cmd # "play"
           /\ currentTrack' = currentTrack)]_vars

\* the players that have been told to play and not told to pause or stopped
ToldToPlay ==
  (IF audio.mounted /\ audio.playing THEN {"native"} ELSE {})
  \cup (IF yt.phase \in {"built", "ready"} /\ yt.cmd = "play"
        THEN {"cur"} ELSE {})
  \cup (IF stale.phase \in {"built", "ready"} /\ stale.cmd = "play"
        THEN {"stale"} ELSE {})

\* C3: in no reachable state have two players both been told to play with
\* neither told to pause or stopped.
C3_SingleActiveOutput == Cardinality(ToldToPlay) <= 1


EndedEvents == {"nativeEnded", "ytEnded"}

\* the cursor is on the queue and the current track is the entry under it
OnQueue == currentTrackIndex >= 0 /\ currentTrackIndex < Len(playlist)
           /\ currentTrack = At(playlist, currentTrackIndex)

\* no player is told to play or load by this step
NoPlayCommand ==
  /\ ~audio'.playing
  /\ yt'.cmd # "play"
  /\ stale'.cmd # "play" \/ stale' = stale

\* C4: with shuffle off and repeat off, the end of the track at the last
\* queue index leaves isPlaying = FALSE, currentTime = 0, cursor = -1 and no
\* play or load command; the end of a track at an earlier index loads and
\* plays the track at the next index.
C4_EndOfQueueTermination ==
  [][(ev'.name \in EndedEvents /\ OnQueue /\ ~isShuffling
      /\ repeatMode = REPEAT_MODES.OFF)
       => IF currentTrackIndex = Len(playlist) - 1
          THEN /\ isPlaying' = FALSE
               /\ currentTime' = 0
               /\ currentTrackIndex' = -1
               /\ NoPlayCommand
          ELSE /\ currentTrack' = At(playlist, currentTrackIndex + 1)
               /\ currentTrackIndex' = currentTrackIndex + 1
               /\ isPlaying' = TRUE]_vars

\* C5: with repeat mode 'track', after the end of the current track
\* currentTime is 0, isPlaying is TRUE, and the same player replays the same
\* track: no load, no remount.
C5_RepeatTrackReplay ==
  [][(ev'.name \in EndedEvents /\ currentTrack # NoTrack
      /\ repeatMode = REPEAT_MODES.TRACK)
       => /\ currentTime' = 0
          /\ isPlaying' = TRUE
          /\ currentTrack' = currentTrack
          /\ currentTrackIndex' = currentTrackIndex
          /\ audio'.mounted = audio.mounted
          /\ yt'.type = yt.type /\ yt'.phase = yt.phase
          /\ IF ev'.name = "nativeEnded"
             THEN audio'.playing /\ audio'.pos = 0
             ELSE yt'.cmd = "play" /\ yt'.pos = 0]_vars

\* C6: with repeat mode 'context' and shuffle off, the end of the track at
\* the last queue index loads and plays the track at index 0, for every
\* queue length >= 1.
C6_RepeatQueueWrap ==
  [][(ev'.name \in EndedEvents /\ OnQueue /\ ~isShuffling
      /\ repeatMode = REPEAT_MODES.CONTEXT
      /\ currentTrackIndex = Len(playlist) - 1)
       => /\ currentTrack' = At(playlist, 0)
          /\ currentTrackIndex' = 0
          /\ isPlaying' = TRUE]_vars

\* C7: the ended handler of the embedded player runs to completion in both
\* presentation modes (hidden audio-only instance, visible VideoViewer
\* instance): it never fails with an exception.
C7_YoutubeEndedHandled == ev.name = "ytEnded" => ~ev.threw


Indices == 0 .. (Len(playlist) - 1)

\* C8: for a non-empty queue getNextIndex returns currentTrackIndex whenever
\* repeat mode is 'track' (whatever the shuffle flag); otherwise, with shuffle
\* off, currentTrackIndex + 1 when that is a valid index, and at the end of
\* the queue 0 if repeat mode is 'context' and -1 if it is 'off'.
C8_NextIndexLinear ==
  Len(playlist) > 0
    => /\ repeatMode = REPEAT_MODES.TRACK
            => GetNextIndex(World) = {currentTrackIndex}
       /\ (repeatMode # REPEAT_MODES.TRACK /\ ~isShuffling)
            => GetNextIndex(World) =
                 { IF currentTrackIndex + 1 \in Indices
                   THEN currentTrackIndex + 1
                   ELSE IF repeatMode = REPEAT_MODES.CONTEXT THEN 0 ELSE -1 }

\* playNext has run on a two-track queue with repeat 'track' and shuffle on
\* and has been handed the cursor itself
C8_Witness ==
  /\ ev.name = "playNext" /\ ev.res = currentTrackIndex
  /\ repeatMode = REPEAT_MODES.TRACK /\ isShuffling
  /\ Len(playlist) > 1 /\ currentTrackIndex \in Indices

\* C9 as stated: with shuffle on and repeat mode not 'track', getNextIndex
\* returns an index of the queue other than currentTrackIndex when length > 1
\* (every such index possible) and returns currentTrackIndex when length = 1.
C9_ShuffleAsStated ==
  (isShuffling /\ repeatMode # REPEAT_MODES.TRACK
   /\ Len(playlist) > 0)
    => GetNextIndex(World) =
         IF Len(playlist) > 1 THEN Indices \ {currentTrackIndex}
         ELSE {currentTrackIndex}

\* C9 amended: with shuffle on and repeat mode not 'track', getNextIndex
\* returns an index of the queue other than currentTrackIndex when length > 1
\* (every such index possible) and returns 0, the only index, when
\* length = 1: that is currentTrackIndex only if the cursor is on the queue.
C9_ShuffleAmended ==
  (isShuffling /\ repeatMode # REPEAT_MODES.TRACK
   /\ Len(playlist) > 0)
    => /\ GetNextIndex(World) =
            IF Len(playlist) > 1 THEN Indices \ {currentTrackIndex} ELSE {0}
       /\ (Len(playlist) = 1 /\ currentTrackIndex \in Indices)
            => GetNextIndex(World) = {currentTrackIndex}

\* playNext has run with shuffle on on a queue of at least two tracks and
\* moved the cursor to another index of the queue
C9_Witness ==
  /\ ev.name = "playNext" /\ ev.res = currentTrackIndex
  /\ isShuffling /\ repeatMode # REPEAT_MODES.TRACK
  /\ Len(playlist) > 1 /\ currentTrackIndex \in Indices

\* C10: playPrevious moves to currentTrackIndex - 1 when that is >= 0; from
\* index 0 it wraps to length - 1 when repeat mode is not 'off' and stays on
\* index 0 without reloading when it is 'off'; it does nothing when the queue
\* is empty or the cursor is -1.
C10_PlayPrevious ==
  [][ev'.name = "playPrevious"
       => IF Len(playlist) = 0 \/ currentTrackIndex = -1
          THEN UNCHANGED << currentTrack, currentTrackIndex, isPlaying,
                            currentTime, duration, audio, yt >>
          ELSE IF currentTrackIndex - 1 >= 0
          THEN /\ currentTrackIndex' = currentTrackIndex - 1
               /\ currentTrack' = At(playlist, currentTrackIndex - 1)
               /\ isPlaying' = TRUE
          ELSE IF repeatMode # REPEAT_MODES.OFF /\ Len(playlist) > 1
          THEN /\ currentTrackIndex' = Len(playlist) - 1
               /\ currentTrack' = At(playlist, Len(playlist) - 1)
               /\ isPlaying' = TRUE
          ELSE UNCHANGED << currentTrack, currentTrackIndex, isPlaying,
                            currentTime, duration, audio, yt >>]_vars


\* the player of the current track is mounted and has reported ready
ActivePlayerReady ==
  /\ currentTrack # NoTrack
  /\ IF sourceType = "youtube" THEN yt.phase = "ready"
     ELSE audio.mounted /\ audio.readyState >= 3

\* C11: two togglePlayPause calls in immediate succession on a track whose
\* player is ready return isPlaying to its original value and give the active
\* player one pause and one play command, in the order of the two toggles.
C11_ToggleTwice ==
  [][(ev.name = "togglePlayPause" /\ ev'.name = "togglePlayPause"
      /\ ActivePlayerReady)
       => /\ isPlaying' = ~isPlaying
          /\ ev.sent = {IF isPlaying THEN "play" ELSE "pause"}
          /\ ev'.sent = {IF isPlaying' THEN "play" ELSE "pause"}]_vars


\* what the stored volume and mute flag amount to on an iframe player
StoredPlayerVolume == IF isMuted THEN 0 ELSE volume * 10

\* C12: a player that becomes the active one by a change of the player kind
\* carries the stored volume and mute values: the <audio> element mounted by
\* a change to a native track has them when the change is committed and keeps
\* them, and the iframe player has them from the moment it is ready, which is
\* before it can produce output.
C12_VolumeCarryOver ==
  [][/\ (yt'.phase = "ready" /\ yt'.type # "none")
          => yt'.vol = StoredPlayerVolume'
     /\ (~IsNative(sourceType) /\ IsNative(sourceType') /\ audio'.mounted)
          => (audio'.vol = volume' /\ audio'.muted = isMuted')
     /\ (audio.mounted /\ audio'.mounted /\ audio'.src = audio.src
         /\ IsNative(sourceType) /\ IsNative(sourceType')
         /\ audio.vol = volume /\ audio.muted = isMuted)
          => (audio'.vol = volume' /\ audio'.muted = isMuted')]_vars

\* a native track has replaced a YouTube track whose player was built, after
\* the volume was moved off its initial value and off the element's default
C12_Witness ==
  /\ ev.name = "playTrack" /\ IsNative(sourceType)
  /\ stale.type # "none" /\ stale.video # NoTrack
  /\ audio.mounted /\ audio.readyState = 0
  /\ volume = 5 /\ audio.vol = 5 /\ isMuted /\ audio.muted


\* C13: loadAndPlayTrack of a track whose source gives no usable reference
\* (no file path, no URL, a YouTube URL without a video id) does not throw,
\* leaves isPlaying FALSE, and loads or plays no player.
C13_UnresolvableSource ==
  [][ev'.name = "playUnresolvable"
       => /\ ~ev'.threw
          /\ isPlaying' = FALSE
          /\ ~audio'.mounted
          /\ yt'.type # "none" => (yt' = yt \/ yt'.cmd \in {"stop", "pause"})
          /\ "play" \notin ev'.sent]_vars

\* C16: when the promise of the native element's play() rejects, nothing is
\* thrown, isPlaying is FALSE afterwards and play() is not issued again by
\* the same task.
C16_AutoplayRejection ==
  [][ev'.name = "nativePlayRejected"
       => /\ ~ev'.threw
          /\ isPlaying' = FALSE
          /\ ~audio'.playing]_vars

FailureEvents == {"scriptFailed", "ytConstructFailed", "ytError",
                  "nativeError"}

\* C17: after a YouTube script load failure, a player construction failure,
\* an embed playback error or a native audio load error, isPlaying is FALSE
\* and nothing is thrown uncaught.
C17_PlayerFailure ==
  [][ev'.name \in FailureEvents => (isPlaying' = FALSE /\ ~ev'.threw)]_vars


\* C14: in every reachable state currentTrackIndex is -1 or an index of
\* playlist, also after setPlaylist or playNewQueue replaced the queue while
\* a track was playing.
C14_CursorInvariant ==
  currentTrackIndex = -1
  \/ (0 <= currentTrackIndex /\ currentTrackIndex < Len(playlist))


\* C15: handleSeek clamps its argument to [0, duration] when duration is
\* known (non-zero) before it applies it to the player and to currentTime,
\* which keeps 0 <= currentTime <= duration.
C15_SeekClamped ==
  [][(ev'.name = "handleSeek" /\ duration > 0)
       => (0 <= currentTime' /\ currentTime' <= duration)]_vars


\* this step constructs a YT.Player: a mounted instance becomes "built"
Constructs ==
  /\ yt'.type # "none" /\ yt'.phase = "built"
  /\ (yt.phase \notin {"built", "ready"} \/ yt'.type # yt.type
      \/ yt'.key # yt.key)

\* C18: at most one YouTube player is constructed in a session: the iframe
\* API script is loaded by the task that constructs the first player, and no
\* later track change or viewer toggle constructs another one or schedules
\* the destruction of the one there is.
C18_SinglePlayerInstance ==
  [][/\ Constructs => ~scriptLoaded
     /\ (yt.phase \in {"built", "ready"}
         /\ ev'.name \in {"playTrack", "toggleVideoViewer"}
         /\ sourceType = "youtube" /\ sourceType' = "youtube")
          => (yt'.phase = yt.phase /\ stale' = stale)]_vars

\* C19: toggleVideoViewer issues a seek only when the viewer opens (hidden to
\* visible), never when it closes, and after either transition the instance
\* that takes over starts from the unified currentTime.
C19_VisibilityHandOff ==
  [][ev'.name = "toggleVideoViewer"
       => /\ "seek" \in ev'.sent => isVideoViewerOpen'
          /\ (yt'.type # "none" /\ yt'.type # yt.type)
               => yt'.c.currentTime = currentTime']_vars


\* the player of the current track has reported ready
PlayerReported ==
  IF sourceType = "youtube" THEN yt.phase = "ready"
  ELSE audio.mounted /\ audio.readyState >= 1

\* a track is selected, playback is wanted, its player has not reported
Loading == currentTrack # NoTrack /\ isPlaying /\ ~PlayerReported

\* C20: from every state in which a track is selected and its player has not
\* reported ready, a state is eventually reached in which the player has
\* reported (playing or paused) or isPlaying is FALSE (paused, stalled or
\* failed), even if the player never reports.
C20_NoIndefiniteLoading == Loading ~> (PlayerReported \/ ~isPlaying)


\* C21: with no current track (also after a failed load that followed a
\* playing track) togglePlayPause and handleSeek leave isPlaying, currentTime,
\* duration and the cursor unchanged and give no command to any player.
C21_NoTrackNoOp ==
  [][(ev'.name \in {"togglePlayPause", "handleSeek"}
      /\ currentTrack = NoTrack)
       => /\ UNCHANGED << isPlaying, currentTime, duration,
                          currentTrackIndex >>
          /\ ev'.sent = {}
          /\ UNCHANGED << audio, yt, stale >>]_vars

\* C22: PUT /:id/tracks by the owner with an existing track adds the track
\* when the playlist lacks it and removes it when the playlist holds it; two
\* successive toggles of one track give back the original list, and the
\* playlist never holds a track id twice.
NoDuplicates(tracks) ==
  \A i, j \in DOMAIN tracks : i # j => tracks[i] # tracks[j]

Holds(tracks, trackId) == \E i \in DOMAIN tracks : tracks[i] = trackId

Saved(r) ==
  /\ requests[r].pc = "found"
  /\ requests'[r].pc = "idle"
  /\ requests'[r].status = 200

C22_ToggleTrack ==
  /\ [] NoDuplicates(playlistDoc.tracks)
  /\ [][\A r \in Requests :
          Saved(r) =>
            LET trackId == requests[r].trackId IN
            /\ Holds(playlistDoc'.tracks, trackId)
                 = ~Holds(playlistDoc.tracks, trackId)
            /\ requests'[r].isAdded = Holds(playlistDoc'.tracks, trackId)
            /\ playlistDoc.lastTrack = trackId
                 => playlistDoc'.tracks = playlistDoc.lastBefore]_vars

\* C23: loadAndPlayTrack(track, index) of a track whose source resolves
\* leaves currentTrack = track, sourceType = the track's kind, isPlaying true,
\* currentTime 0 and duration 0; the cursor becomes index, and stays as it
\* was when index is -1.
LoadEvents == {"playTrack", "playNewQueue"}

SeekWhileInitialising ==
  /\ ev.name = "handleSeek"
  /\ ev.arg > 0
  /\ currentTrack # NoTrack
  /\ sourceType = "youtube"
  /\ youtubePlayerObjectRef = "none"

LatestIntentInForce ==
  [][(currentTrack # NoTrack /\ ev'.name = "ytReady")
       => (yt'.cmd = IF isPlaying' THEN "play" ELSE "pause")]_vars

C24_SeekBeforeReady ==
  [][(SeekWhileInitialising /\ ev'.name = "ytReady")
       => /\ yt'.pos = ClampPos(ev.arg)
          /\ yt'.cmd = IF isPlaying' THEN "play" ELSE "pause"]_vars

C26_CursorPointsAtTrack ==
  (currentTrack # NoTrack /\ currentTrackIndex # -1)
    => At(playlist, currentTrackIndex) = currentTrack

\* C27: when a YouTube track ends, the next index is decided with the queue,
\* the cursor, the shuffle flag and the repeat mode of the time of the ended
\* event, not with those of the time the player was mounted.
C27_EndedUsesCurrentPolicy ==
  [][(ev'.name = "ytEnded" /\ ~ev'.threw)
       => ev'.res \in GetNextIndex(World)]_vars

\* C28: after an ended event has been handled either isPlaying is true (the
\* next track was loaded or the same track replays) or the cursor is -1;
\* isPlaying = false with the cursor on an index does not follow an ended
\* event, whatever the queue length, the shuffle flag and the repeat mode.
C28_NoStuckStateAfterEnded ==
  [][ev'.name \in EndedEvents
       => (isPlaying' \/ currentTrackIndex' = -1)]_vars

\* C29: an <audio> element that plays has the stored volume and mute flag,
\* so every newly mounted element got them before it played, also when a
\* native track follows a native track with sourceType, isPlaying, volume
\* and isMuted unchanged.
C29_NativeVolumeBeforePlay ==
  (audio.mounted /\ audio.playing)
    => (audio.vol = volume /\ audio.muted = isMuted)

\* the players that exist and hold a source they can play
HoldsSource ==
  (IF audio.mounted /\ audio.src # NoTrack THEN {"native"} ELSE {})
  \cup (IF yt.phase \in {"built", "ready"} /\ yt.video # NoTrack
        THEN {"cur"} ELSE {})
  \cup (IF stale.phase \in {"built", "ready"} /\ stale.video # NoTrack
        THEN {"stale"} ELSE {})

\* C30: in every reachable state at most one player that holds a playable
\* source exists: the <audio> element, the hidden YouTube player and the
\* viewer's YouTube player exclude each other, also during a track change, a
\* viewer toggle and the 100 ms before an unmounted player is destroyed.
C30_OnePlayerWithSource == Cardinality(HoldsSource) <= 1

====
